---- MODULE Spec2Model ----
(***************************************************************************)
(* A model of niftithings/nifti.py: resample_nifti (the resampler) and     *)
(* orthogonalize_nifti (the wrapper around dicom2nifti's global resample   *)
(* settings).                                                              *)
(*                                                                         *)
(* Numbers.  Zooms, zoom factors and affine entries are exact rationals    *)
(* [n, d]; numpy's allclose is exact equality of rationals, so the model   *)
(* covers the inputs on which floating point rounding decides nothing.     *)
(* The one place where binary64 rounding changes an integer result,        *)
(* int(1 / zoom_factor) with zoom_factor = 1 / k, is modelled bit-exactly  *)
(* (FloatRecipTrunc).                                                      *)
(*                                                                         *)
(* Memory.  numpy arrays live in two heaps (arrays, affines); a volume     *)
(* holds references into them, so that aliasing and in-place writes are    *)
(* visible.                                                                *)
(***************************************************************************)
EXTENDS Integers, Sequences, FiniteSets, TLC

(***************************************************************************)
(* Bounds of the model.                                                    *)
(***************************************************************************)
MaxExtent == 2
MaxRequest == 5
LargeFactor == 93
MaxPadding == 2
MaxSplineOrder == 2

(***************************************************************************)
(* Program constants.                                                      *)
(***************************************************************************)
NSpatial == 3
DefaultPadding == 0
DefaultSplineOrder == 0

(***************************************************************************)
(* Exact rationals.                                                        *)
(***************************************************************************)
Abs(x) == IF x < 0 THEN -x ELSE x

RECURSIVE GCD(_, _)
GCD(a, b) == IF b = 0 THEN a ELSE GCD(b, a % b)

Rat(n, d) ==
    LET g == GCD(Abs(n), Abs(d))
        s == IF d < 0 THEN -1 ELSE 1
    IN  [n |-> s * (n \div g), d |-> s * (d \div g)]

RInt(k) == [n |-> k, d |-> 1]
RMul(a, b) == Rat(a.n * b.n, a.d * b.d)
RDiv(a, b) == Rat(a.n * b.d, a.d * b.n)
RAdd(a, b) == Rat(a.n * b.d + b.n * a.d, a.d * b.d)
RLess(a, b) == a.n * b.d < b.n * a.d
RLeq(a, b) == a.n * b.d <= b.n * a.d
REq(a, b) == a.n * b.d = b.n * a.d

\* Python 3 round(x) for x >= 0: to the nearest integer, a tie to the even one.
PyRound(x) ==
    LET f == x.n \div x.d
        r == x.n % x.d
    IN  IF 2 * r < x.d THEN f
        ELSE IF 2 * r > x.d THEN f + 1
        ELSE IF f % 2 = 0 THEN f ELSE f + 1

\* The square root of a rational that is a perfect square.
RECURSIVE ISqrtFrom(_, _)
ISqrtFrom(n, r) == IF r * r >= n THEN r ELSE ISqrtFrom(n, r + 1)

ISqrt(n) == ISqrtFrom(n, 0)
RSqrt(x) == [n |-> ISqrt(x.n), d |-> ISqrt(x.d)]

(***************************************************************************)
(* int(1 / (1 / k)) in IEEE-754 binary64, for an integer k >= 1.           *)
(* A binary64 has 53 significant bits.  With 2^e <= k < 2^(e+1) and        *)
(* q = e + 53, the quotient 1/k is rounded to m * 2^-q, m the integer      *)
(* nearest to 2^q / k.  Writing 2^q = m*k + s, the second quotient is      *)
(* 2^q / m = k + s/m: it rounds to k when s >= 0, and when s < 0 it rounds *)
(* below k exactly when |s|/m exceeds half the spacing 2^(e-52) of the     *)
(* doubles below k, that is when |s| * k > 4^e.  int() then truncates a    *)
(* value just below k to k - 1; the first such k is 93.                    *)
(***************************************************************************)
RECURSIVE Log2Floor(_)
Log2Floor(k) == IF k < 2 THEN 0 ELSE 1 + Log2Floor(k \div 2)

RECURSIVE Pow(_, _)
Pow(b, e) == IF e = 0 THEN 1 ELSE b * Pow(b, e - 1)

RECURSIVE Pow2Mod(_, _)
Pow2Mod(e, k) == IF e = 0 THEN 1 % k ELSE (2 * Pow2Mod(e - 1, k)) % k

FloatRecipTrunc(k) ==
    LET e == Log2Floor(k)
        r == Pow2Mod(e + 53, k)
    IN  IF k = Pow(2, e) THEN k
        ELSE IF 2 * r < k THEN k
        ELSE IF (k - r) * k > Pow(4, e) THEN k - 1
        ELSE k

(***************************************************************************)
(* numpy arrays: a shape and one value per index; indices count from 0.    *)
(***************************************************************************)
Axes(shape) == 1..Len(shape)

MaxOf(shape) == 
    LET RECURSIVE M(_)
        M(a) == IF a = 0 THEN 0 ELSE IF shape[a] > M(a - 1) THEN shape[a] ELSE M(a - 1)
    IN  M(Len(shape))

Indices(shape) ==
    {idx \in [Axes(shape) -> 0..(MaxOf(shape) - 1)] : \A a \in Axes(shape) : idx[a] < shape[a]}

\* The position of idx in C order, from 0.
LinearIndex(shape, idx) ==
    LET RECURSIVE L(_)
        L(a) == IF a = 0 THEN 0 ELSE L(a - 1) * shape[a] + idx[a]
    IN  L(Len(shape))

RECURSIVE SumOver(_, _)
SumOver(S, f) ==
    IF S = {} THEN 0
    ELSE LET x == CHOOSE y \in S : TRUE IN f[x] + SumOver(S \ {x}, f)

(***************************************************************************)
(* The external numerical primitives.  Their result shapes are those of    *)
(* the libraries; the values stand in for the interpolated ones: the       *)
(* nearest input sample (zoom), the input sample (gaussian_filter) and the *)
(* floored block mean (downsample_array).                                  *)
(***************************************************************************)
\* arraythings.downsample_array: means over non-overlapping windows, the
\* remainder that fills no whole window dropped.
downsample_array(input_array, window_sizes) ==
    LET shape == [a \in Axes(input_array.shape) |-> input_array.shape[a] \div window_sizes[a]]
        Block(idx) == {i \in Indices(input_array.shape) :
                          \A a \in Axes(shape) : i[a] \div window_sizes[a] = idx[a]}
        Mean(idx) == SumOver(Block(idx), input_array.data) \div Cardinality(Block(idx))
    IN  [shape |-> shape, data |-> [idx \in Indices(shape) |-> Mean(idx)]]

\* scipy.ndimage.zoom: every extent becomes int(round(extent * factor)).
zoom(input_array, factors) ==
    LET shape == [a \in Axes(input_array.shape) |->
                     PyRound(RMul(RInt(input_array.shape[a]), factors[a]))]
        Nearest(idx) == input_array.data[[a \in Axes(shape) |->
                            (idx[a] * input_array.shape[a]) \div shape[a]]]
    IN  [shape |-> shape, data |-> [idx \in Indices(shape) |-> Nearest(idx)]]

\* scipy.ndimage.gaussian_filter: a new array of the input's shape.
gaussian_filter(input_array) ==
    [shape |-> input_array.shape,
     data |-> [idx \in Indices(input_array.shape) |-> input_array.data[idx]]]

\* An array like a that keeps a's values.
values_like(a) == [shape |-> a.shape, data |-> [idx \in Indices(a.shape) |-> a.data[idx]]]

\* numpy.zeros_like
zeros_like(a) == [shape |-> a.shape, data |-> [idx \in Indices(a.shape) |-> 0]]

(***************************************************************************)
(* Affines: 4x4 matrices of rationals, A[i][j] the entry in row i and      *)
(* column j, from 1.                                                       *)
(***************************************************************************)
\* numpy.linalg.norm(affine[:3, :3], 2, axis=0)[j], squared.
ColumnNormSquared(affine, j) ==
    RAdd(RAdd(RMul(affine[1][j], affine[1][j]), RMul(affine[2][j], affine[2][j])),
         RMul(affine[3][j], affine[3][j]))

\* numpy.allclose of a zoom with the norm of column j.
ZoomIsColumnNorm(z, affine, j) == REq(RMul(z, z), ColumnNormSquared(affine, j))

\* numpy.allclose of two vectors of zooms; vectors of different lengths
\* (neither of length 1) do not broadcast.
allclose(a, b) == \A i \in 1..Len(a) : REq(a[i], b[i])

(***************************************************************************)
(* Volumes (nibabel.Nifti1Image): references to the data array and to the  *)
(* affine, and the header's zooms.                                         *)
(***************************************************************************)
None == [n |-> 0, d |-> 0]

Alloc(heap, value) == [heap |-> Append(heap, value), ref |-> Len(heap) + 1]

\* image.get_fdata(): the image's floating point array, not a copy of it.
get_fdata(image) == image.dataobj

\* nib.Nifti1Image(dataobj, affine): keeps dataobj, copies the affine, and
\* fills a new header from the affine: the spatial zooms are the column norms,
\* every further zoom is 1.
Nifti1Image(affs, dataobj, ndim, affine) ==
    LET a == Alloc(affs, affs[affine])
    IN  [affines |-> a.heap,
         image |-> [dataobj |-> dataobj,
                    affine |-> a.ref,
                    zooms |-> [i \in 1..ndim |->
                                  IF i <= NSpatial
                                  THEN RSqrt(ColumnNormSquared(affs[affine], i))
                                  ELSE RInt(1)]]]

\* The header left as the constructor filled it.
set_zooms_omitted(image, zooms) == image

\* image.header.set_zooms(zooms)

set_zooms(image, zooms) == [image EXCEPT !.zooms = zooms]

(***************************************************************************)
(* resample_nifti, line by line.                                           *)
(***************************************************************************)
\* line 73: the spatial zooms are the column norms of the affine.
ConsistentZooms(zooms, affine) ==
    \A j \in 1..NSpatial : ZoomIsColumnNorm(zooms[j], affine, j)

\* line 75
SubstituteNone(input_zooms, output_zooms) ==
    [a \in 1..Len(input_zooms) |->
        IF output_zooms[a] = None THEN input_zooms[a] ELSE output_zooms[a]]

\* The test of line 77 with > for >=.
MeanAxisAllowedStrict(input_zoom, output_zoom) ==
    RLess(input_zoom, RMul(Rat(4, 3), output_zoom))

\* The test of line 77 without the band: output_zoom >= input_zoom.
MeanAxisAllowedDownOnly(input_zoom, output_zoom) ==
    RLeq(input_zoom, output_zoom)

\* line 77, one axis: 4 / 3 * output_zoom >= input_zoom
MeanAxisAllowed(input_zoom, output_zoom) ==
    RLeq(input_zoom, RMul(Rat(4, 3), output_zoom))

\* line 78, one axis: the block size k, zoom_factor being 1 / k.
MeanBlockSize(input_zoom, output_zoom) ==
    IF RLess(RMul(Rat(2, 3), output_zoom), input_zoom)
    THEN 1
    ELSE PyRound(RDiv(output_zoom, input_zoom))

\* line 80, one axis: int(1 / zoom_factor) for the binary64 zoom_factor 1 / k.
WindowSize(k) == FloatRecipTrunc(k)

\* line 84, one axis
SplineZoomFactor(input_zoom, output_zoom) == RDiv(input_zoom, output_zoom)

\* line 93: min(s, s_) on every axis, and the assignment of that region.
Overlap(shape, shape_) ==
    [a \in Axes(shape_) |-> IF shape[a] < shape_[a] THEN shape[a] ELSE shape_[a]]

AssignOverlap(target, source) ==
    LET region == Indices(Overlap(source.shape, target.shape))
    IN  [target EXCEPT !.data =
            [idx \in DOMAIN target.data |->
                IF idx \in region THEN source.data[idx] ELSE target.data[idx]]]

\* The affine itself in place of a copy.
AffineAliased(affs, affine) == [heap |-> affs, ref |-> affine]

\* line 98: input_nii.affine.copy()
AffineCopy(affs, affine) == Alloc(affs, affs[affine])

\* Row i divided by factor i.
RescaledByRow(affine, zoom_factors) ==
    [i \in 1..4 |-> [j \in 1..4 |->
        IF i <= NSpatial /\ j <= NSpatial
        THEN RDiv(affine[i][j], zoom_factors[i])
        ELSE affine[i][j]]]

\* Column j multiplied by factor j.
RescaledByProduct(affine, zoom_factors) ==
    [i \in 1..4 |-> [j \in 1..4 |->
        IF i <= NSpatial /\ j <= NSpatial
        THEN RMul(affine[i][j], zoom_factors[j])
        ELSE affine[i][j]]]

\* line 99: affine[:3, :3] / zoom_factors[:3] divides column j by factor j.
Rescaled(affine, zoom_factors) ==
    [i \in 1..4 |-> [j \in 1..4 |->
        IF i <= NSpatial /\ j <= NSpatial
        THEN RDiv(affine[i][j], zoom_factors[j])
        ELSE affine[i][j]]]

\* lines 90-103: the reconciliation with the reference, the output affine and
\* the construction of the output image.
FinishResample(arrs, affs, input_nii, use_reference, reference_nii, output_zooms, zoom_factors, window_sizes, computed) ==
    LET Raised(kind) ==
            [status |-> "raised", error |-> kind, message_zooms |-> <<>>,
             arrays |-> arrs, affines |-> affs]
        Returned(arrs1, affs1, output_array, output_affine) ==
            LET made == Nifti1Image(affs1, output_array,
                                    Len(arrs1[output_array].shape), output_affine)
            IN  [status |-> "returned",
                 arrays |-> arrs1,
                 affines |-> made.affines,
                 output_nii |-> set_zooms(made.image, output_zooms),
                 output_zooms |-> output_zooms,
                 zoom_factors |-> zoom_factors,
                 window_sizes |-> window_sizes,
                 computed |-> computed]
    IN  IF use_reference
        THEN IF Len(output_zooms) # Len(reference_nii.zooms)
             THEN Raised("reference_dimensions")
             ELSE IF ~allclose(output_zooms, reference_nii.zooms)
             THEN Raised("reference_zooms")
             ELSE LET fresh == Alloc(arrs, zeros_like(arrs[get_fdata(reference_nii)]))
                      output_array_ == fresh.ref
                      arrs1 == [fresh.heap EXCEPT ![output_array_] =
                                   AssignOverlap(@, fresh.heap[computed])]
                  IN  Returned(arrs1, affs, output_array_, reference_nii.affine)
        ELSE LET copied == AffineCopy(affs, input_nii.affine)
                 affs1 == [copied.heap EXCEPT ![copied.ref] = Rescaled(@, zoom_factors)]
             IN  Returned(arrs, affs1, computed, copied.ref)

\* lines 71-88, then FinishResample.  order is [kind, value] with kind "mean",
\* "int" or "other".
resample_nifti(arrs, affs, input_nii, requested, order, prefilter, use_reference, reference_nii) ==
    LET input_zooms == input_nii.zooms
        Raised(kind, zooms) ==
            [status |-> "raised", error |-> kind, message_zooms |-> zooms,
             arrays |-> arrs, affines |-> affs]
        input_array == get_fdata(input_nii)
        output_zooms == SubstituteNone(input_zooms, requested)
        axes == 1..Len(input_zooms)
    IN  IF Len(input_zooms) # Len(requested)
        THEN Raised("dimensions", <<>>)
        ELSE IF ~ConsistentZooms(input_zooms, affs[input_nii.affine])
        THEN Raised("inconsistent_input", <<>>)
        ELSE IF order.kind = "mean"
        THEN IF ~(\A a \in axes : MeanAxisAllowed(input_zooms[a], output_zooms[a]))
             THEN Raised("mean_precondition", input_zooms)
             ELSE LET block == [a \in axes |-> MeanBlockSize(input_zooms[a], output_zooms[a])]
                      zoom_factors == [a \in axes |-> Rat(1, block[a])]
                      output_zooms_ == [a \in axes |-> RDiv(input_zooms[a], zoom_factors[a])]
                      window_sizes == [a \in axes |-> WindowSize(block[a])]
                      out == Alloc(arrs, downsample_array(arrs[input_array], window_sizes))
                  IN  FinishResample(out.heap, affs, input_nii, use_reference, reference_nii,
                                     output_zooms_, zoom_factors, window_sizes, out.ref)
        ELSE IF order.kind # "int"
        THEN Raised("order_type", <<>>)
        ELSE LET zoom_factors == [a \in axes |->
                                     SplineZoomFactor(input_zooms[a], output_zooms[a])]
                 filtered == IF prefilter
                             THEN Alloc(arrs, gaussian_filter(arrs[input_array]))
                             ELSE [heap |-> arrs, ref |-> input_array]
                 out == Alloc(filtered.heap, zoom(filtered.heap[filtered.ref], zoom_factors))
             IN  FinishResample(out.heap, affs, input_nii, use_reference, reference_nii,
                                output_zooms, zoom_factors, <<>>, out.ref)

(***************************************************************************)
(* The state.                                                              *)
(***************************************************************************)
VARIABLES
    arrays,      \* the heap of data arrays
    affines,     \* the heap of affines
    input_nii,   \* the volume the caller resamples
    call,        \* the arguments of the last call of resample_nifti
    orig,        \* what the arguments' arrays, affines and zooms were at the call
    ret,         \* what the call returned or raised, with its locals
    pc,          \* "ready", "returned", "raised", "written"
    resample_padding,                     \* dicom2nifti.settings.resample_padding
    resample_spline_interpolation_order,  \* dicom2nifti.settings, likewise
    orth,        \* the call of orthogonalize_nifti: its arguments and result
    invoked,     \* what resample_nifti_images saw, each time the call invoked it
    opc          \* where the call of orthogonalize_nifti is

rvars == <<arrays, affines, input_nii, call, orig, ret, pc>>
ovars == <<resample_padding, resample_spline_interpolation_order, orth, invoked, opc>>
vars == <<rvars, ovars>>

(***************************************************************************)
(* The volumes and arguments the model draws from.                         *)
(***************************************************************************)
Direction(kind) ==
    LET o == RInt(0)
        l == RInt(1)
    IN  CASE kind = "identity" -> << <<l, o, o>>, <<o, l, o>>, <<o, o, l>> >>
          [] kind = "swap"     -> << <<o, RInt(-1), o>>, <<l, o, o>>, <<o, o, l>> >>
          [] kind = "oblique"  -> << <<Rat(3, 5), Rat(-4, 5), o>>,
                                     <<Rat(4, 5), Rat(3, 5), o>>,
                                     <<o, o, l>> >>

\* The affine with the given directions whose column j has norm scale * zooms[j].
MakeAffine(kind, zooms, scale) ==
    [i \in 1..4 |-> [j \in 1..4 |->
        IF i <= NSpatial /\ j <= NSpatial
        THEN RMul(Direction(kind)[i][j], RMul(RInt(scale), zooms[j]))
        ELSE IF i = 4 THEN (IF j = 4 THEN RInt(1) ELSE RInt(0))
        ELSE RInt(i + 4)]]

Filled(shape, base) ==
    [shape |-> shape, data |-> [idx \in Indices(shape) |-> base + LinearIndex(shape, idx)]]

Ints(v) == [a \in 1..Len(v) |-> RInt(v[a])]

SpatialShapes == {<<e1, e2, MaxExtent>> : e1 \in 1..MaxExtent, e2 \in 1..MaxExtent}

\* The input volumes of Spec: [zooms, shape, direction, scale]; scale 2 makes the
\* affine disagree with the zooms.
InputVolumes ==
    {[zooms |-> Ints(z), shape |-> sh, direction |-> k[1], scale |-> k[2]] :
        z \in {<<1, 1, 1>>, <<2, 1, 2>>}, sh \in SpatialShapes,
        k \in {<<"identity", 1>>, <<"swap", 1>>, <<"oblique", 1>>, <<"identity", 2>>}}
    \cup
    {[zooms |-> Ints(<<1, 2, 1, 3>>), shape |-> Append(sh, 2),
      direction |-> "swap", scale |-> 1] : sh \in SpatialShapes}

Mean == [kind |-> "mean", value |-> 0]
Cubic == [kind |-> "int", value |-> 3]
NearestNeighbour == [kind |-> "int", value |-> 0]
NotAnOrder == [kind |-> "other", value |-> 0]

NoReference == [given |-> FALSE]

\* The reference volumes of Spec: [zooms, shape, scale], the affine axis-aligned.
References(ndim) ==
    LET zooms == IF ndim = NSpatial THEN {<<1, 1, 1>>, <<2, 2, 2>>}
                 ELSE {<<1, 2, 1, 3>>, <<2, 2, 2, 6>>}
        shapes == {<<r, MaxExtent + 1 - r, 1>> : r \in 1..MaxExtent}
        Shape(sh) == IF ndim = NSpatial THEN sh ELSE Append(sh, 1)
    IN  {[given |-> TRUE, zooms |-> Ints(z), shape |-> Shape(sh), scale |-> 1] :
            z \in zooms, sh \in shapes}
        \cup
        {[given |-> TRUE, zooms |-> Ints(z), shape |-> Shape(<<1, 1, 1>>), scale |-> 2] :
            z \in zooms}

Requests(ndim) ==
    LET all == {<<r1, r2, r3>> : r1 \in {None, RInt(1), RInt(2)},
                                 r2 \in {None, RInt(2), RInt(3)}, r3 \in {None, RInt(2)}}
    IN  IF ndim = NSpatial THEN all
        ELSE {Append(r, t) : r \in all, t \in {None, RInt(6)}}

\* The calls of Spec: [requested, order, prefilter, reference].
Calls(ndim) ==
    {[requested |-> r, order |-> o, prefilter |-> TRUE, reference |-> ref] :
        r \in Requests(ndim), o \in {Mean, Cubic},
        ref \in References(ndim) \cup {NoReference}}
    \cup
    {[requested |-> r, order |-> NearestNeighbour, prefilter |-> FALSE,
      reference |-> NoReference] : r \in Requests(ndim)}
    \cup
    {[requested |-> r, order |-> NotAnOrder, prefilter |-> TRUE,
      reference |-> NoReference] : r \in {[a \in 1..ndim |-> None]}}
    \cup
    {[requested |-> r, order |-> o, prefilter |-> TRUE, reference |-> NoReference] :
        r \in {<<None, None>>}, o \in {Mean, Cubic}}

\* The input volumes and calls of SpecMean: axis-aligned volumes, order "mean",
\* requests in steps of 1/2 and one large one.
MeanInputVolumes ==
    {[zooms |-> Ints(<<z1, z2, 1>>), shape |-> sh, direction |-> "identity", scale |-> 1] :
        z1 \in 1..2, z2 \in 1..2, sh \in SpatialShapes}
    \cup
    {[zooms |-> Ints(<<2, 1, 1>>), shape |-> <<1, 1, MaxExtent>>,
      direction |-> "identity", scale |-> 2]}

MeanCalls ==
    LET steps == {None, RInt(LargeFactor)} \cup {Rat(n, 2) : n \in 1..MaxRequest}
    IN  {[requested |-> <<r1, r2, r3>>, order |-> Mean, prefilter |-> TRUE,
          reference |-> NoReference] :
            r1 \in steps, r2 \in steps, r3 \in {None, RInt(3)}}

\* The state before a call: the input volume alone in the heaps.
InitResample(volumes) ==
    /\ \E v \in volumes :
        /\ arrays = <<Filled(v.shape, 1)>>
        /\ affines = <<MakeAffine(v.direction, v.zooms, v.scale)>>
        /\ input_nii = [dataobj |-> 1, affine |-> 1, zooms |-> v.zooms]
    /\ call = [requested |-> <<>>]
    /\ orig = [input_zooms |-> <<>>]
    /\ ret = [status |-> "none"]
    /\ pc = "ready"

InitOrth ==
    /\ resample_padding = DefaultPadding
    /\ resample_spline_interpolation_order = DefaultSplineOrder
    /\ orth = [image |-> 0]
    /\ invoked = <<>>
    /\ opc = "outside"

Init == InitResample(InputVolumes) /\ InitOrth

InitMean == InitResample(MeanInputVolumes) /\ InitOrth

(***************************************************************************)
(* The caller's operations on resample_nifti.                              *)
(***************************************************************************)
\* One call.  A reference volume is built by the caller before the call.
Resample(requested, order, prefilter, reference) ==
    /\ pc = "ready"
    /\ LET arrs == IF reference.given
                   THEN Append(arrays, Filled(reference.shape, 100))
                   ELSE arrays
           affs == IF reference.given
                   THEN Append(affines, MakeAffine("identity", reference.zooms, reference.scale))
                   ELSE affines
           reference_nii == IF reference.given
                            THEN [dataobj |-> Len(arrs), affine |-> Len(affs),
                                  zooms |-> reference.zooms]
                            ELSE [dataobj |-> 0, affine |-> 0, zooms |-> <<>>]
           result == resample_nifti(arrs, affs, input_nii, requested, order,
                                    prefilter, reference.given, reference_nii)
       IN  /\ call' = [requested |-> requested, order |-> order,
                       prefilter |-> prefilter, use_reference |-> reference.given,
                       reference_nii |-> reference_nii]
           /\ orig' = [input_data |-> arrs[input_nii.dataobj],
                       input_affine |-> affs[input_nii.affine],
                       input_zooms |-> input_nii.zooms,
                       reference_data |-> IF reference.given THEN arrs[Len(arrs)] ELSE <<>>,
                       reference_affine |-> IF reference.given THEN affs[Len(affs)] ELSE <<>>,
                       reference_zooms |-> reference_nii.zooms]
           /\ ret' = [result EXCEPT !.arrays = <<>>, !.affines = <<>>]
           /\ arrays' = result.arrays
           /\ affines' = result.affines
           /\ pc' = result.status
    /\ UNCHANGED <<input_nii, ovars>>

\* The caller writes into the affine of the volume it got back.
WriteOutputAffine ==
    /\ pc = "returned"
    /\ affines' = [affines EXCEPT ![ret.output_nii.affine][1][4] = RAdd(@, RInt(1))]
    /\ pc' = "written"
    /\ UNCHANGED <<arrays, input_nii, call, orig, ret, ovars>>

\* The caller drops the result and the reference; the input volume stays.
Forget ==
    /\ pc \in {"returned", "raised", "written"}
    /\ arrays' = SubSeq(arrays, 1, 1)
    /\ affines' = SubSeq(affines, 1, 1)
    /\ call' = [requested |-> <<>>]
    /\ orig' = [input_zooms |-> <<>>]
    /\ ret' = [status |-> "none"]
    /\ pc' = "ready"
    /\ UNCHANGED <<input_nii, ovars>>

Next ==
    \/ \E c \in Calls(Len(input_nii.zooms)) :
            Resample(c.requested, c.order, c.prefilter, c.reference)
    \/ WriteOutputAffine
    \/ Forget

Spec == Init /\ [][Next]_vars

NextMean ==
    \/ \E c \in MeanCalls : Resample(c.requested, c.order, c.prefilter, c.reference)
    \/ WriteOutputAffine
    \/ Forget

SpecMean == InitMean /\ [][NextMean]_vars

(***************************************************************************)
(* orthogonalize_nifti, line by line.  Calls are serialized: a call starts *)
(* when no call is under way.  resample_nifti_images is external: it       *)
(* returns a list of images or raises, and nothing in orthogonalize_nifti  *)
(* catches what it raises.                                                 *)
(***************************************************************************)
Images == 1..2

OrthCall(image, padding, order) ==
    /\ opc \in {"outside", "returned", "raised"}
    /\ orth' = [image |-> image,
                resample_padding |-> padding,
                resample_spline_interpolation_order |-> order,
                padding_before |-> resample_padding,
                order_before |-> resample_spline_interpolation_order,
                orthogonal_nii |-> <<>>]
    /\ invoked' = <<>>
    /\ opc' = "line124"
    /\ UNCHANGED <<resample_padding, resample_spline_interpolation_order, rvars>>

\* line 124
SetPadding ==
    /\ opc = "line124"
    /\ resample_padding' = orth.resample_padding
    /\ opc' = "line125"
    /\ UNCHANGED <<resample_spline_interpolation_order, orth, invoked, rvars>>

\* line 125
SetSplineOrder ==
    /\ opc = "line125"
    /\ resample_spline_interpolation_order' = orth.resample_spline_interpolation_order
    /\ opc' = "line126"
    /\ UNCHANGED <<resample_padding, orth, invoked, rvars>>

\* What resample_nifti_images([image]) is called with, and the settings it reads.
Invocation ==
    [images |-> <<orth.image>>,
     padding |-> resample_padding,
     order |-> resample_spline_interpolation_order]

\* line 126, the external call returns
ResampleImagesReturns ==
    /\ opc = "line126"
    /\ invoked' = Append(invoked, Invocation)
    /\ orth' = [orth EXCEPT !.orthogonal_nii = <<[orthogonalized |-> orth.image]>>]
    /\ opc' = "line127"
    /\ UNCHANGED <<resample_padding, resample_spline_interpolation_order, rvars>>

\* line 126, the external call raises: the exception leaves orthogonalize_nifti
ResampleImagesRaises ==
    /\ opc = "line126"
    /\ invoked' = Append(invoked, Invocation)
    /\ opc' = "raised"
    /\ UNCHANGED <<resample_padding, resample_spline_interpolation_order, orth, rvars>>

\* line 127
RestoreSplineOrder ==
    /\ opc = "line127"
    /\ resample_spline_interpolation_order' = DefaultSplineOrder
    /\ opc' = "line128"
    /\ UNCHANGED <<resample_padding, orth, invoked, rvars>>

\* The padding put back to what it was before the call.
RestorePaddingToPrevious ==
    /\ opc = "line128"
    /\ resample_padding' = orth.padding_before
    /\ opc' = "line129"
    /\ UNCHANGED <<resample_spline_interpolation_order, orth, invoked, rvars>>

\* line 128
RestorePadding ==
    /\ opc = "line128"
    /\ resample_padding' = DefaultPadding
    /\ opc' = "line129"
    /\ UNCHANGED <<resample_spline_interpolation_order, orth, invoked, rvars>>

\* line 129
OrthReturn ==
    /\ opc = "line129"
    /\ opc' = "returned"
    /\ UNCHANGED <<resample_padding, resample_spline_interpolation_order, orth, invoked, rvars>>

NextOrth ==
    \/ \E image \in Images, padding \in 0..MaxPadding, order \in 0..MaxSplineOrder :
            OrthCall(image, padding, order)
    \/ SetPadding
    \/ SetSplineOrder
    \/ ResampleImagesReturns
    \/ ResampleImagesRaises
    \/ RestoreSplineOrder
    \/ RestorePadding
    \/ OrthReturn

InitForOrth ==
    /\ InitResample({[zooms |-> Ints(<<1, 1, 1>>), shape |-> <<1, 1, 1>>,
                      direction |-> "oblique", scale |-> 1]})
    /\ InitOrth

SpecOrth == InitForOrth /\ [][NextOrth]_vars

(***************************************************************************)
(* The vocabulary of the properties.                                      *)
(***************************************************************************)
Done == pc \in {"returned", "raised", "written"}
Succeeded == pc \in {"returned", "written"}
MeanCall == Done /\ call.order.kind = "mean"

\* The call got past lines 72 and 73.
PassedInputChecks ==
    /\ Len(call.requested) = Len(orig.input_zooms)
    /\ ConsistentZooms(orig.input_zooms, orig.input_affine)

\* The requested zoom of axis a once None is replaced (line 75).
Wanted(a) == IF call.requested[a] = None THEN orig.input_zooms[a] ELSE call.requested[a]

CallAxes == 1..Len(orig.input_zooms)

\* 4/3 * wanted < input and wanted < input, in integers.
TooFine(a) == 4 * Wanted(a).n * orig.input_zooms[a].d < 3 * orig.input_zooms[a].n * Wanted(a).d
Finer(a) == Wanted(a).n * orig.input_zooms[a].d < orig.input_zooms[a].n * Wanted(a).d

\* The distance of two rationals.
RAbsDiff(a, b) == Rat(Abs(a.n * b.d - b.n * a.d), a.d * b.d)

OutputArray == arrays[ret.output_nii.dataobj]
OutputAffine == affines[ret.output_nii.affine]
Computed == arrays[ret.computed]

(***************************************************************************)
(* orthogonalize_nifti                                                     *)
(***************************************************************************)
\* C1: whenever control has left orthogonalize_nifti, by a return or by the
\* exception of resample_nifti_images, the global padding and spline order are
\* back at their defaults 0 and 0.
C1_DefaultsOnEveryExit ==
    opc \in {"returned", "raised"} =>
        /\ resample_padding = 0
        /\ resample_spline_interpolation_order = 0

\* C2: a call whose external invocation succeeds has invoked the resampler exactly
\* once, on the one-element list of its image, under exactly the padding and spline
\* order it was passed; and when it has returned both settings are 0, whatever they
\* were before the call.
C2_OneInvocationUnderTheArguments ==
    opc \in {"line127", "line128", "line129", "returned"} =>
        /\ Len(invoked) = 1
        /\ invoked[1].images = <<orth.image>>
        /\ invoked[1].padding = orth.resample_padding
        /\ invoked[1].order = orth.resample_spline_interpolation_order
        /\ (opc = "returned" =>
              /\ resample_padding = 0
              /\ resample_spline_interpolation_order = 0
              /\ orth.orthogonal_nii = <<[orthogonalized |-> orth.image]>>)

C2_Witness ==
    /\ opc = "returned"
    /\ orth.padding_before # 0
    /\ orth.order_before # 0
    /\ orth.resample_padding \notin {0, orth.padding_before}
    /\ orth.resample_spline_interpolation_order \notin {0, orth.order_before}

(***************************************************************************)
(* resample_nifti                                                          *)
(***************************************************************************)
\* C3: a successful call with a reference returns an array of the reference's
\* shape that equals the computed output wherever the index is below both extents
\* on every axis and is 0 elsewhere, with an affine equal to the reference's.
C3_ReferenceCropsAndPads ==
    (pc = "returned" /\ call.use_reference) =>
        /\ OutputArray.shape = orig.reference_data.shape
        /\ \A idx \in DOMAIN OutputArray.data :
              IF \A a \in CallAxes : idx[a] < Computed.shape[a]
              THEN OutputArray.data[idx] = Computed.data[idx]
              ELSE OutputArray.data[idx] = 0
        /\ OutputAffine = orig.reference_affine

C3_Witness ==
    /\ pc = "returned"
    /\ call.use_reference
    /\ call.order.kind = "mean"
    /\ \E a \in CallAxes : Computed.shape[a] > OutputArray.shape[a]
    /\ \E a \in CallAxes : 0 < Computed.shape[a] /\ Computed.shape[a] < OutputArray.shape[a]
    /\ \E idx \in DOMAIN OutputArray.data : OutputArray.data[idx] # 0
    /\ \E idx \in DOMAIN OutputArray.data : OutputArray.data[idx] = 0

\* C4: a mean-mode call that reaches line 77 with some axis 4/3 * outputZoom <
\* inputZoom raises the error that carries the input zooms and returns no volume;
\* with no such axis that error is not raised.
C4_MeanPrecondition ==
    (MeanCall /\ PassedInputChecks) =>
        IF \E a \in CallAxes : TooFine(a)
        THEN /\ pc = "raised"
             /\ ret.error = "mean_precondition"
             /\ ret.message_zooms = orig.input_zooms
             /\ Len(arrays) = 1
        ELSE ~(pc = "raised" /\ ret.error = "mean_precondition")

C4_Witness ==
    /\ MeanCall /\ PassedInputChecks
    /\ pc = "raised"
    /\ \E a \in CallAxes : TooFine(a)
    /\ \E a \in CallAxes : ~TooFine(a) /\ Finer(a)

\* C5 as stated: every mean-mode call that asks, on some axis, for a zoom smaller
\* than the input zoom is rejected.
C5_EveryUpsamplingRejected ==
    (MeanCall /\ PassedInputChecks /\ \E a \in CallAxes : Finer(a)) => pc = "raised"

\* C5 amended: a mean-mode call is rejected when, on some axis, 4/3 * outputZoom <
\* inputZoom; a call that asks for a smaller zoom only within that band (3/4 *
\* inputZoom <= outputZoom < inputZoom) is not rejected for it, and when it
\* succeeds it leaves those axes as they are: zoom factor 1, output zoom the input
\* zoom, extent the input's.
C5_UpsamplingBeyondTheBandRejected ==
    (MeanCall /\ PassedInputChecks /\ \E a \in CallAxes : Finer(a)) =>
        IF \E a \in CallAxes : TooFine(a)
        THEN pc = "raised" /\ Len(arrays) = 1
        ELSE /\ ~(pc = "raised" /\ ret.error = "mean_precondition")
             /\ Succeeded =>
                   \A a \in CallAxes : Finer(a) =>
                       /\ ret.zoom_factors[a] = RInt(1)
                       /\ ret.output_nii.zooms[a] = orig.input_zooms[a]
                       /\ Computed.shape[a] = orig.input_data.shape[a]

C5_Witness ==
    /\ MeanCall /\ PassedInputChecks
    /\ pc = "returned"
    /\ \E a \in CallAxes : Finer(a)
    /\ \E a \in CallAxes : ret.zoom_factors[a] # RInt(1)

\* C6: the zooms stored in a returned volume are, on every axis, the input zoom
\* where the request was None, else the requested zoom in spline mode and the
\* snapped zoom inputZoom / zoomFactor in mean mode.
C6_StoredZooms ==
    Succeeded =>
        /\ Len(ret.output_nii.zooms) = Len(orig.input_zooms)
        /\ \A a \in CallAxes :
              ret.output_nii.zooms[a] =
                 IF call.requested[a] = None THEN orig.input_zooms[a]
                 ELSE IF call.order.kind = "mean"
                 THEN RDiv(orig.input_zooms[a], ret.zoom_factors[a])
                 ELSE call.requested[a]

C6_Witness ==
    /\ pc = "returned"
    /\ call.order.kind = "mean"
    /\ Len(orig.input_zooms) > NSpatial
    /\ \E a \in CallAxes : call.requested[a] = None
    /\ \E a \in CallAxes : a > NSpatial /\ ret.output_nii.zooms[a] \notin {orig.input_zooms[a], RInt(1)}
    /\ \E a \in CallAxes : call.requested[a] # None /\ ret.output_nii.zooms[a] # call.requested[a]

\* C7: after any call, the input volume's array, affine and zooms and the
\* reference volume's array, affine and zooms are what they were at the call; the
\* returned volume has an affine of its own, and stays apart when the caller
\* writes into it.
C7_ArgumentsUntouched ==
    Done =>
        /\ arrays[input_nii.dataobj] = orig.input_data
        /\ affines[input_nii.affine] = orig.input_affine
        /\ input_nii.zooms = orig.input_zooms
        /\ call.use_reference =>
              /\ arrays[call.reference_nii.dataobj] = orig.reference_data
              /\ affines[call.reference_nii.affine] = orig.reference_affine
              /\ call.reference_nii.zooms = orig.reference_zooms
        /\ Succeeded =>
              /\ ret.output_nii.affine # input_nii.affine
              /\ call.use_reference => ret.output_nii.affine # call.reference_nii.affine

C7_Witness ==
    /\ pc = "written"
    /\ ~call.use_reference
    /\ OutputAffine[1][4] # orig.input_affine[1][4]
    /\ \E a \in 1..NSpatial : ret.zoom_factors[a] # RInt(1)
    /\ affines[input_nii.affine] = orig.input_affine

\* C8 as stated: given an input whose affine agrees with its zooms, in every
\* returned volume the column norms of the affine's 3x3 block are the stored
\* zooms of the first three axes.
C8_OutputAgrees ==
    pc = "returned" =>
        \A j \in 1..NSpatial :
            RMul(ret.output_nii.zooms[j], ret.output_nii.zooms[j])
                = ColumnNormSquared(OutputAffine, j)

\* C8 amended: the same, given that a reference volume, when one is passed, has
\* itself an affine whose column norms are its stored zooms.
C8_OutputAgreesGivenSoundReference ==
    (/\ pc = "returned"
     /\ call.use_reference =>
           \A j \in 1..NSpatial :
               RMul(orig.reference_zooms[j], orig.reference_zooms[j])
                   = ColumnNormSquared(orig.reference_affine, j))
    => \A j \in 1..NSpatial :
            RMul(ret.output_nii.zooms[j], ret.output_nii.zooms[j])
                = ColumnNormSquared(OutputAffine, j)

C8_Witness ==
    /\ pc = "returned"
    /\ ~call.use_reference
    /\ ret.zoom_factors[1] # ret.zoom_factors[2]
    /\ orig.input_affine[1][2] # RInt(0)
    /\ orig.input_affine[1][1] # RInt(0)

\* C9: in a successful mean-mode call, on every axis, with k = 1 when inputZoom >
\* 2/3 * outputZoom and round(outputZoom / inputZoom) otherwise: k is a positive
\* integer, the window is k, the output zoom is k * inputZoom, no other positive
\* multiple of the input zoom is closer to the requested zoom, and the output
\* extent is the input extent divided by k, rounded down.
C9_BlockSize ==
    (Succeeded /\ call.order.kind = "mean") =>
        \A a \in CallAxes :
            LET zin == orig.input_zooms[a]
                k == IF 3 * zin.n * Wanted(a).d > 2 * Wanted(a).n * zin.d
                     THEN 1
                     ELSE PyRound(RDiv(Wanted(a), zin))
            IN  /\ k >= 1
                /\ ret.window_sizes[a] = k
                /\ ret.output_zooms[a] = RMul(RInt(k), zin)
                /\ \A m \in {k - 1, k + 1} \ {0} :
                      RLeq(RAbsDiff(RMul(RInt(k), zin), Wanted(a)),
                           RAbsDiff(RMul(RInt(m), zin), Wanted(a)))
                /\ Computed.shape[a] = orig.input_data.shape[a] \div k

\* C10: without a reference, column j of the returned affine's 3x3 block is the
\* input's column j divided by the zoom factor of axis j, that is, scaled by
\* stored output zoom over input zoom; the translation column and the bottom row
\* are the input's.
C10_ColumnsRescaled ==
    (pc = "returned" /\ ~call.use_reference) =>
        /\ \A i \in 1..NSpatial, j \in 1..NSpatial :
              /\ RMul(OutputAffine[i][j], ret.zoom_factors[j]) = orig.input_affine[i][j]
              /\ RMul(OutputAffine[i][j], orig.input_zooms[j])
                    = RMul(orig.input_affine[i][j], ret.output_nii.zooms[j])
        /\ \A i \in 1..4 : OutputAffine[i][4] = orig.input_affine[i][4]
        /\ OutputAffine[4] = orig.input_affine[4]

C10_Witness ==
    /\ pc = "returned"
    /\ ~call.use_reference
    /\ call.order.kind = "int"
    /\ orig.input_affine[1][2] # RInt(0)
    /\ orig.input_affine[1][1] # RInt(0)
    /\ ret.zoom_factors[1] # ret.zoom_factors[2]
    /\ RLess(ret.zoom_factors[2], RInt(1))
    /\ RLess(RInt(1), ret.zoom_factors[1])

====
